---- MODULE Spec2Model ----
(***************************************************************************)
(* A model of the whitelist package: the network ACL BasicNet with its     *)
(* two JSON encodings, the stub NetStub, and the dual ACL BasicDual with   *)
(* its sequenced and asynchronous launch policies.                         *)
(*                                                                         *)
(* Abstractions.  An IP address is a record [len, val]: len is the length  *)
(* of the byte slice and val the address as a number of AddrBits bits      *)
(* (the 32 bits of an IPv4 address scaled down).  The text of an address   *)
(* is one decimal digit (the dotted quad scaled down); the text of a       *)
(* network is <address digit> "/" <prefix length in decimal>.  Byte        *)
(* strings are sequences of one-character strings.  JSON input carries no  *)
(* escape sequences.                                                       *)
(***************************************************************************)
EXTENDS Integers, Sequences, FiniteSets, TLC

VARIABLES
  \* BasicNet (sequential specifications)
  whitelist,   \* wl.whitelist: the entry sequence, each entry an IPNet or NIL
  jsonFormat,  \* wl.jsonFormat
  op,          \* the operation that ran last
  arg,         \* its argument
  res,         \* what it returned, or "panic"
  \* round trip
  out,         \* the bytes MarshalJSON produced
  snap,        \* the entry sequence MarshalJSON serialised
  \* BasicDual
  hostKind,    \* the Addresses collaborator: "basic" or "stub"
  netKind,     \* the Networks collaborator: "basic" or "stub"
  addresses,   \* the addresses the basic host ACL holds
  launchPolicy,\* wl.launchPolicy
  dpc,         \* where the caller of BasicDual.Permitted is
  dip,         \* the ip of the call
  asked,       \* the collaborators whose Permitted the call has invoked, in order
  tpc,         \* where each of the two goroutines is
  chan,        \* the buffered channel res
  recvd,       \* the values the caller has received, in order
  dres,        \* what BasicDual.Permitted returned
  crashed,     \* a goroutine panicked: the process is gone
  \* lock-level BasicNet
  lpc,         \* where each goroutine is in its BasicNet operation
  lop,         \* the operation and argument of each goroutine
  readers,     \* the goroutines holding wl.lock for reading
  writer,      \* the goroutines holding wl.lock for writing
  waiting,     \* the goroutines blocked in wl.lock.Lock()
  lcap,        \* MarshalJSON's len(wl.whitelist), read for the capacity of ss, per goroutine
  lss,         \* MarshalJSON's local ss, per goroutine
  lres         \* what the last operation of each goroutine returned

seqVars == <<whitelist, jsonFormat, op, arg, res>>
rtVars == <<out, snap>>
dualVars == <<hostKind, netKind, addresses, launchPolicy, dpc, dip, asked, tpc, chan, recvd, dres, crashed>>
lockVars == <<lpc, lop, readers, writer, waiting, lcap, lss, lres>>
vars == <<seqVars, rtVars, dualVars, lockVars>>

----------------------------------------------------------------------------
(* Bounds *)

\* The width of an address in bits.
AddrBits == 2
\* The longest entry sequence Add builds.
MaxEntries == 2
\* The most tokens an UnmarshalJSON input holds.
MaxTokens == 3

----------------------------------------------------------------------------
(* Constants of the package *)

\* The two serialization modes (their values are set in whitelist.go).
JsonFormatCompatibility == "JsonFormatCompatibility"
JsonFormatNew == "JsonFormatNew"
LaunchPolicySequenced == 0
LaunchPolicyAsync == 1

\* A nil *net.IPNet.
NIL == [IP |-> -1, Ones |-> -1]
\* No address: what ParseIP gives for text that names none.
NoAddr == -1

----------------------------------------------------------------------------
(* Byte strings *)

DQ == "\""
Digits == <<"0", "1", "2", "3", "4", "5", "6", "7", "8", "9">>
DigitChars == {Digits[i] : i \in 1..10}
DigitVal(c) == (CHOOSE i \in 1..10 : Digits[i] = c) - 1
DigitChar(n) == Digits[n + 1]

\* unicode.IsSpace, on the model's alphabet
IsSpace(c) == c = " "

RECURSIVE TrimLeft(_)
TrimLeft(s) == IF s # <<>> /\ IsSpace(Head(s)) THEN TrimLeft(Tail(s)) ELSE s

RECURSIVE TrimRight(_)
TrimRight(s) ==
  IF s # <<>> /\ IsSpace(s[Len(s)]) THEN TrimRight(SubSeq(s, 1, Len(s) - 1)) ELSE s

\* strings.TrimSpace
TrimSpace(s) == TrimRight(TrimLeft(s))

\* strings.IndexByte, 1-based; 0 when c is not in s
IndexByte(s, c) ==
  IF \E i \in 1..Len(s) : s[i] = c
  THEN CHOOSE i \in 1..Len(s) : s[i] = c /\ \A j \in 1..(i - 1) : s[j] # c
  ELSE 0

\* strings.Split(s, sep) for a one-byte sep: every piece, the empty ones included
RECURSIVE Split(_, _)
Split(s, sep) ==
  LET i == IndexByte(s, sep)
  IN IF i = 0 THEN <<s>>
     ELSE <<SubSeq(s, 1, i - 1)>> \o Split(SubSeq(s, i + 1, Len(s)), sep)

\* strings.Join
RECURSIVE Join(_, _)
Join(ss, sep) ==
  IF ss = <<>> THEN <<>>
  ELSE IF Len(ss) = 1 THEN ss[1]
  ELSE ss[1] \o sep \o Join(Tail(ss), sep)

----------------------------------------------------------------------------
(* net.IP, net.IPNet *)

RECURSIVE Pow2(_)
Pow2(n) == IF n = 0 THEN 1 ELSE 2 * Pow2(n - 1)

Addrs == 0..(Pow2(AddrBits) - 1)

\* ip.Mask(mask): the top `ones` bits of a
MaskAddr(a, ones) == (a \div Pow2(AddrBits - ones)) * Pow2(AddrBits - ones)

IPNet(a, ones) == [IP |-> a, Ones |-> ones]

\* validIP (whitelist.go): the slice is 4 or 16 bytes long
validIP(ip) == ip.len \in {4, 16}

\* (*net.IPNet).Contains, for a receiver that is not nil: the network number and
\* the address agree under the mask
Contains(n, ip) == MaskAddr(n.IP, n.Ones) = MaskAddr(ip.val, n.Ones)

RECURSIVE Decimal(_)
Decimal(n) == IF n < 10 THEN <<DigitChar(n)>> ELSE Decimal(n \div 10) \o <<DigitChar(n % 10)>>

\* (*net.IPNet).String: "<nil>" for a nil receiver, else address "/" prefix length;
\* the address is printed as stored, unmasked
String(n) ==
  IF n = NIL THEN <<"<", "n", "i", "l", ">">>
  ELSE <<DigitChar(n.IP)>> \o <<"/">> \o Decimal(n.Ones)

\* net.ParseIP on the scaled-down address text: one digit naming an address
ParseIP(s) ==
  IF Len(s) = 1 /\ s[1] \in DigitChars /\ DigitVal(s[1]) \in Addrs
  THEN DigitVal(s[1]) ELSE NoAddr

\* dtoi: the value of a string of digits
RECURSIVE Dtoi(_)
Dtoi(s) == IF s = <<>> THEN 0 ELSE 10 * Dtoi(SubSeq(s, 1, Len(s) - 1)) + DigitVal(s[Len(s)])

\* net.ParseCIDR: NIL (with an error) for text that names no network, else the network with its address masked
ParseCIDR(s) ==
  LET i == IndexByte(s, "/")
      addr == SubSeq(s, 1, i - 1)
      mask == SubSeq(s, i + 1, Len(s))
  IN IF i = 0 THEN NIL
     ELSE IF ParseIP(addr) = NoAddr THEN NIL
     ELSE IF mask = <<>> \/ \E k \in 1..Len(mask) : mask[k] \notin DigitChars THEN NIL
     ELSE IF Dtoi(mask) > AddrBits THEN NIL
     ELSE IPNet(MaskAddr(ParseIP(addr), Dtoi(mask)), Dtoi(mask))

----------------------------------------------------------------------------
(* encoding/json: json.Unmarshal of a byte string into a []string *)

JsonFail == [ok |-> FALSE, nets |-> <<>>]

StartsWithNull(s) == Len(s) >= 4 /\ SubSeq(s, 1, 4) = <<"n", "u", "l", "l">>

\* The elements of a JSON array whose opening bracket has been read: each element
\* a string (no escapes) or null, which leaves the element "".  Anything else,
\* or text after the closing bracket, is an error.
RECURSIVE JsonElems(_, _)
JsonElems(s, acc) ==
  LET t == TrimLeft(s)
      j == IndexByte(Tail(t), DQ)
      isStr == t # <<>> /\ Head(t) = DQ /\ j > 0
      elem == IF isStr THEN SubSeq(Tail(t), 1, j - 1) ELSE <<>>
      rest == TrimLeft(IF isStr THEN SubSeq(Tail(t), j + 1, Len(t) - 1)
                       ELSE SubSeq(t, 5, Len(t)))
  IN IF ~isStr /\ ~StartsWithNull(t) THEN JsonFail
     ELSE IF rest = <<>> THEN JsonFail
     ELSE IF Head(rest) = "," THEN JsonElems(Tail(rest), Append(acc, elem))
     ELSE IF Head(rest) = "]" /\ TrimLeft(Tail(rest)) = <<>>
          THEN [ok |-> TRUE, nets |-> Append(acc, elem)]
     ELSE JsonFail

\* json.Unmarshal(in, &nets) for an input that starts with '['
JsonUnmarshal(in) ==
  LET t == TrimLeft(Tail(in))
  IN IF t # <<>> /\ Head(t) = "]"
     THEN (IF TrimLeft(Tail(t)) = <<>> THEN [ok |-> TRUE, nets |-> <<>>] ELSE JsonFail)
     ELSE JsonElems(t, <<>>)

----------------------------------------------------------------------------
(* BasicNet: what each method computes *)

\* What a call returned.
Returned(v) == [panic |-> FALSE, ret |-> v]
Panicked == [panic |-> TRUE, ret |-> FALSE]

\* The scan of Permitted over the entries from i on: true at the first entry that
\* contains ip; Contains on a nil entry dereferences it and panics.
RECURSIVE Scan(_, _, _)
Scan(wl, i, ip) ==
  IF i > Len(wl) THEN Returned(FALSE)
  ELSE IF wl[i] = NIL THEN Panicked
  ELSE IF Contains(wl[i], ip) THEN Returned(TRUE)
  ELSE Scan(wl, i + 1, ip)

\* Permitted without the validIP test.
NetPermittedUnchecked(wl, ip) == Scan(wl, 1, ip)

\* BasicNet.Permitted
NetPermitted(wl, ip) == IF ~validIP(ip) THEN Returned(FALSE) ELSE Scan(wl, 1, ip)

\* Add that skips a network the ACL already holds.
NetAddUnlessPresent(wl, n) ==
  IF n = NIL \/ \E i \in 1..Len(wl) : String(wl[i]) = String(n) THEN wl ELSE Append(wl, n)

\* BasicNet.Add: the entry sequence after Add(n)
NetAdd(wl, n) == IF n = NIL THEN wl ELSE Append(wl, n)

\* The index Remove finds: the first entry whose String() equals n's; 0 for none
\* (the code's -1).
RemoveIndex(wl, n) ==
  IF \E i \in 1..Len(wl) : String(wl[i]) = String(n)
  THEN CHOOSE i \in 1..Len(wl) :
         /\ String(wl[i]) = String(n)
         /\ \A j \in 1..(i - 1) : String(wl[j]) # String(n)
  ELSE 0

\* Remove that drops every entry whose String() equals n's.
NetRemoveAll(wl, n) ==
  IF n = NIL THEN wl ELSE SelectSeq(wl, LAMBDA e : String(e) # String(n))

\* BasicNet.Remove: the entry sequence after Remove(n)
NetRemove(wl, n) ==
  IF n = NIL THEN wl
  ELSE IF RemoveIndex(wl, n) = 0 THEN wl
  ELSE SubSeq(wl, 1, RemoveIndex(wl, n) - 1) \o SubSeq(wl, RemoveIndex(wl, n) + 1, Len(wl))

\* The String() of each entry, in order: the ss of MarshalJSON.
Strings(wl) == [i \in 1..Len(wl) |-> String(wl[i])]

\* The bytes MarshalJSON builds from ss in the instance's mode.
FormatBytes(ss, fmt) ==
  IF fmt = JsonFormatCompatibility
  THEN [err |-> FALSE, bytes |-> <<DQ>> \o Join(ss, <<",">>) \o <<DQ>>]
  ELSE IF fmt = JsonFormatNew
  THEN [err |-> FALSE,
        bytes |-> IF Len(ss) > 0
                  THEN <<"[", DQ>> \o Join(ss, <<DQ, ",", DQ>>) \o <<DQ, "]">>
                  ELSE <<"[", "]">>]
  ELSE [err |-> TRUE, bytes |-> <<>>]

\* The same with the array's strings joined by a bare comma.
MarshalJSONCommaJoined(wl, fmt) ==
  IF fmt = JsonFormatCompatibility THEN FormatBytes(Strings(wl), fmt)
  ELSE [err |-> FALSE, bytes |-> <<"[", DQ>> \o Join(Strings(wl), <<",">>) \o <<DQ, "]">>]

\* BasicNet.MarshalJSON: [err, bytes]
MarshalJSON(wl, fmt) == FormatBytes(Strings(wl), fmt)

\* The loop of UnmarshalJSON over nets from i on: w is wl.whitelist, made with
\* len(nets) nil entries; an empty token is skipped, a parsed one is stored at
\* the token's own index i, a bad one sets wl.whitelist to nil; after the loop
\* the last `skipped` entries are cut off.  keep: wl.whitelist was not assigned.
RECURSIVE Fill(_, _, _, _)
Fill(nets, i, w, skipped) ==
  IF i > Len(nets)
  THEN [panic |-> FALSE, err |-> FALSE, keep |-> FALSE,
        whitelist |-> SubSeq(w, 1, Len(w) - skipped)]
  ELSE LET addr == TrimSpace(nets[i])
           n == ParseCIDR(addr)
       IN IF addr = <<>> THEN Fill(nets, i + 1, w, skipped + 1)
          ELSE IF n = NIL
          THEN [panic |-> FALSE, err |-> TRUE, keep |-> FALSE, whitelist |-> <<>>]
          ELSE Fill(nets, i + 1, [w EXCEPT ![i] = n], skipped)

\* The nets UnmarshalJSON reads from a quoted (compatibility) input.
CompatNets(in) == Split(TrimSpace(SubSeq(in, 2, Len(in) - 1)), ",")

\* The nets UnmarshalJSON reads from an input of either shape: [ok, nets].
NetsOf(in) ==
  IF in[1] = "[" /\ in[Len(in)] = "]" THEN JsonUnmarshal(in)
  ELSE [ok |-> TRUE, nets |-> CompatNets(in)]

\* A return of UnmarshalJSON before wl.whitelist is touched: a panic, or an error.
Untouched(panic) == [panic |-> panic, err |-> ~panic, keep |-> TRUE, whitelist |-> <<>>]

\* UnmarshalJSON that looks for the shape at the first and last bytes that are
\* not white space.
DecodeTrimmed(in) ==
  LET t == TrimSpace(in)
  IN IF Len(t) = 0 THEN Untouched(TRUE)
     ELSE IF ~(t[1] = "[" /\ t[Len(t)] = "]") /\ (t[1] # DQ \/ t[Len(t)] # DQ)
     THEN Untouched(FALSE)
     ELSE IF ~(t[1] = "[" /\ t[Len(t)] = "]") /\ Len(t) = 1 THEN Untouched(TRUE)
     ELSE IF ~NetsOf(t).ok THEN Untouched(FALSE)
     ELSE Fill(NetsOf(t).nets, 1, [k \in 1..Len(NetsOf(t).nets) |-> NIL], 0)

\* BasicNet.UnmarshalJSON(in), the instance aside: [panic, err, keep, whitelist].
\* in[0] of an empty input and in[1:0] of a one-byte quote are out of range.
Decode(in) ==
  IF Len(in) = 0 THEN Untouched(TRUE)
  ELSE LET newFormat == in[1] = "[" /\ in[Len(in)] = "]"
           nets == NetsOf(in)
       IN IF ~newFormat /\ (in[1] # DQ \/ in[Len(in)] # DQ) THEN Untouched(FALSE)
          ELSE IF ~newFormat /\ Len(in) = 1 THEN Untouched(TRUE)
          ELSE IF ~nets.ok THEN Untouched(FALSE)
          ELSE Fill(nets.nets, 1, [k \in 1..Len(nets.nets) |-> NIL], 0)

\* UnmarshalJSON that has reset wl.whitelist before it tests and parses the input.
UnmarshalledCleared(wl, d) ==
  [panic |-> d.panic, err |-> d.err, whitelist |-> d.whitelist]

\* BasicNet.UnmarshalJSON on an instance holding wl, given what Decode found.
Unmarshalled(wl, d) ==
  [panic |-> d.panic, err |-> d.err, whitelist |-> IF d.keep THEN wl ELSE d.whitelist]

\* BasicNet.UnmarshalJSON on an instance holding wl: [panic, err, whitelist]
UnmarshalJSON(wl, in) == Unmarshalled(wl, Decode(in))

----------------------------------------------------------------------------
(* NetStub, the host ACLs and BasicDual: what each Permitted computes *)

\* NetStub.Permitted: logs a warning and returns true, whatever ip is
NetStubPermitted(ip) == Returned(TRUE)

\* HostStub.Permitted (whitelist.go): always permitted
HostStubPermitted(ip) == TRUE

\* Basic.Permitted (whitelist.go): a valid ip that was added
BasicPermitted(addrs, ip) == validIP(ip) /\ ip \in addrs

\* wl.Addresses.Permitted(ip) for a collaborator of the given kind
HostPermitted(kind, addrs, ip) ==
  IF kind = "stub" THEN HostStubPermitted(ip) ELSE BasicPermitted(addrs, ip)

\* wl.Networks.Permitted(ip) for a collaborator of the given kind
NetACLPermitted(kind, wl, ip) ==
  IF kind = "stub" THEN NetStubPermitted(ip) ELSE NetPermitted(wl, ip)

\* BasicDual.Permitted under LaunchPolicySequenced: Networks is asked only when
\* Addresses said no
SequencedPermitted(hk, nk, addrs, wl, ip) ==
  IF HostPermitted(hk, addrs, ip) THEN Returned(TRUE) ELSE NetACLPermitted(nk, wl, ip)

----------------------------------------------------------------------------
(* The inputs the operations are driven with *)

\* A valid IPv4 address, a nil slice and the 2-byte slice of TestFailPermitted.
IPs == {[len |-> 4, val |-> a] : a \in Addrs} \cup {[len |-> 0, val |-> 0], [len |-> 2, val |-> 0]}

\* The networks handed to Add and Remove: two in canonical form, and one whose
\* address has bits below the mask.
CanonicalNets == {IPNet(0, 1), IPNet(2, 2), IPNet(2, 1)}
ArgNets == {IPNet(0, 1), IPNet(2, 2), IPNet(3, 1)}

\* The tokens of an UnmarshalJSON input: a network, a network in non-canonical
\* form between spaces, the empty token, and an address out of range.
Tokens ==
  { String(IPNet(0, 1)), <<" ">> \o String(IPNet(3, 1)) \o <<" ">>, <<>>,
    <<"9", "/", "1">> }

TokenSeqs == UNION {[1..n -> Tokens] : n \in 0..MaxTokens}

\* A quoted, comma-separated input; a JSON array input.
CompatInput(toks) == <<DQ>> \o Join(toks, <<",">>) \o <<DQ>>
NewInput(toks) ==
  IF toks = <<>> THEN <<"[", "]">>
  ELSE <<"[", DQ>> \o Join(toks, <<DQ, ",", DQ>>) \o <<DQ, "]">>

\* Inputs of neither shape, inputs that are no JSON, and the two shortest inputs.
OddInputs ==
  { <<>>, <<DQ>>,
    Join(<<String(IPNet(3, 1)), String(IPNet(0, 2))>>, <<",">>),
    <<" ">> \o CompatInput(<<String(IPNet(0, 1))>>),
    <<"[", DQ>> \o String(IPNet(0, 1)) \o <<"]">>,
    <<"[">> \o String(IPNet(0, 1)) \o <<"]">>,
    <<"[", " ", DQ>> \o String(IPNet(2, 2)) \o <<DQ, " ", ",", "n", "u", "l", "l", " ", "]">> }

Inputs == {CompatInput(t) : t \in TokenSeqs} \cup {NewInput(t) : t \in TokenSeqs} \cup OddInputs

\* Decode, worked out once for each input.
Decoded == [in \in Inputs |-> Decode(in)]

Formats == {JsonFormatCompatibility, JsonFormatNew}

----------------------------------------------------------------------------
(* The parts of the state a specification does not use stay as they start *)

RtIdle == out = <<>> /\ snap = <<>>
DualIdle ==
  /\ hostKind = "basic" /\ netKind = "basic" /\ addresses = {}
  /\ launchPolicy = LaunchPolicySequenced
  /\ dpc = "idle" /\ dip = [len |-> 0, val |-> 0] /\ asked = <<>>
  /\ tpc = [t \in {"addresses", "networks"} |-> "none"]
  /\ chan = <<>> /\ recvd = <<>> /\ dres = FALSE /\ crashed = FALSE
LockIdle ==
  /\ lpc = <<>> /\ lop = <<>> /\ readers = {} /\ writer = {} /\ waiting = {}
  /\ lcap = <<>> /\ lss = <<>> /\ lres = <<>>
OpIdle == op = "new" /\ arg = <<>> /\ res = Returned(FALSE)

----------------------------------------------------------------------------
(* Spec: one BasicNet, its methods called one after another *)

\* NewBasicNet2(jsonFormat); NewBasicNet() is NewBasicNet2(JsonFormatCompatibility)
NewBasicNet2(fmt) ==
  /\ whitelist' = <<>>
  /\ jsonFormat' = fmt
  /\ op' = "NewBasicNet2" /\ arg' = fmt /\ res' = Returned(FALSE)

Init ==
  /\ \E fmt \in Formats :
       /\ whitelist = <<>> /\ jsonFormat = fmt
       /\ op = "NewBasicNet2" /\ arg = fmt /\ res = Returned(FALSE)
  /\ RtIdle /\ DualIdle /\ LockIdle

New ==
  /\ \E fmt \in Formats : NewBasicNet2(fmt)
  /\ UNCHANGED <<rtVars, dualVars, lockVars>>

Permitted ==
  /\ \E ip \in IPs :
       /\ op' = "Permitted" /\ arg' = ip
       /\ res' = NetPermitted(whitelist, ip)
  /\ UNCHANGED <<whitelist, jsonFormat, rtVars, dualVars, lockVars>>

Add ==
  /\ \E n \in ArgNets \cup {NIL} :
       /\ n # NIL => Len(whitelist) < MaxEntries
       /\ whitelist' = NetAdd(whitelist, n)
       /\ op' = "Add" /\ arg' = n /\ res' = Returned(FALSE)
  /\ UNCHANGED <<jsonFormat, rtVars, dualVars, lockVars>>

Remove ==
  /\ \E n \in ArgNets \cup CanonicalNets \cup {NIL} :
       /\ whitelist' = NetRemove(whitelist, n)
       /\ op' = "Remove" /\ arg' = n /\ res' = Returned(FALSE)
  /\ UNCHANGED <<jsonFormat, rtVars, dualVars, lockVars>>

Marshal ==
  /\ op' = "MarshalJSON" /\ arg' = <<>>
  /\ res' = MarshalJSON(whitelist, jsonFormat)
  /\ UNCHANGED <<whitelist, jsonFormat, rtVars, dualVars, lockVars>>

\* UnmarshalJSON that takes up the mode of the input it decoded.
UnmarshalAdoptsShape ==
  /\ \E in \in Inputs :
       /\ whitelist' = Unmarshalled(whitelist, Decoded[in]).whitelist
       /\ op' = "UnmarshalJSON" /\ arg' = in
       /\ res' = [panic |-> Decoded[in].panic, err |-> Decoded[in].err]
       /\ jsonFormat' = IF in # <<>> /\ in[1] = "[" THEN JsonFormatNew ELSE JsonFormatCompatibility
  /\ UNCHANGED <<rtVars, dualVars, lockVars>>

Unmarshal ==
  /\ \E in \in Inputs :
       /\ whitelist' = Unmarshalled(whitelist, Decoded[in]).whitelist
       /\ op' = "UnmarshalJSON" /\ arg' = in
       /\ res' = [panic |-> Decoded[in].panic, err |-> Decoded[in].err]
  /\ UNCHANGED <<jsonFormat, rtVars, dualVars, lockVars>>

\* NewNetStub().Permitted(ip)
StubPermitted ==
  /\ \E ip \in IPs :
       /\ op' = "NetStub.Permitted" /\ arg' = ip
       /\ res' = NetStubPermitted(ip)
  /\ UNCHANGED <<whitelist, jsonFormat, rtVars, dualVars, lockVars>>

\* NewStubDual().Permitted(ip): HostStub and NetStub under LaunchPolicySequenced
StubDualPermitted ==
  /\ \E ip \in IPs :
       /\ op' = "StubDual.Permitted" /\ arg' = ip
       /\ res' = SequencedPermitted("stub", "stub", {}, <<>>, ip)
  /\ UNCHANGED <<whitelist, jsonFormat, rtVars, dualVars, lockVars>>

Next ==
  \/ New \/ Permitted \/ Add \/ Remove \/ Marshal \/ Unmarshal
  \/ StubPermitted \/ StubDualPermitted

Spec == Init /\ [][Next]_vars

----------------------------------------------------------------------------
(* SpecRoundTrip: an ACL is built by Add, serialised, and the bytes are
   deserialised into a fresh ACL (TestMarshalCompatNet, TestMarshalNewNet) *)

\* Every network of the address space in canonical form: no bits below the mask.
AllCanonicalNets == {IPNet(MaskAddr(a, ones), ones) : a \in Addrs, ones \in 0..AddrBits}

RtAdd ==
  /\ op \in {"NewBasicNet2", "Add"}
  /\ Len(whitelist) < MaxEntries
  /\ \E n \in AllCanonicalNets :
       /\ whitelist' = NetAdd(whitelist, n)
       /\ op' = "Add" /\ arg' = n /\ res' = Returned(FALSE)
  /\ UNCHANGED <<jsonFormat, rtVars, dualVars, lockVars>>

RtMarshal ==
  /\ op \in {"NewBasicNet2", "Add"}
  /\ op' = "MarshalJSON" /\ arg' = <<>>
  /\ res' = MarshalJSON(whitelist, jsonFormat)
  /\ out' = MarshalJSON(whitelist, jsonFormat).bytes
  /\ snap' = whitelist
  /\ UNCHANGED <<whitelist, jsonFormat, dualVars, lockVars>>

\* The fresh ACL the bytes are read into, of either mode.
RtFresh ==
  /\ op = "MarshalJSON"
  /\ \E fmt \in Formats :
       /\ whitelist' = <<>> /\ jsonFormat' = fmt
       /\ op' = "fresh" /\ arg' = fmt /\ res' = Returned(FALSE)
  /\ UNCHANGED <<rtVars, dualVars, lockVars>>

RtUnmarshal ==
  /\ op = "fresh"
  /\ whitelist' = UnmarshalJSON(whitelist, out).whitelist
  /\ op' = "UnmarshalJSON" /\ arg' = out
  /\ res' = [panic |-> UnmarshalJSON(whitelist, out).panic,
             err |-> UnmarshalJSON(whitelist, out).err]
  /\ UNCHANGED <<jsonFormat, rtVars, dualVars, lockVars>>

RtNext == RtAdd \/ RtMarshal \/ RtFresh \/ RtUnmarshal

SpecRoundTrip == Init /\ [][RtNext]_vars

\* C5: for canonical networks added to an ACL of either mode, UnmarshalJSON of
\* the MarshalJSON output into a fresh ACL succeeds, and the entries it yields
\* have the same strings, the same count and the same membership answers.
C5_RoundTrip ==
  op = "UnmarshalJSON" =>
    /\ res = [panic |-> FALSE, err |-> FALSE]
    /\ Len(whitelist) = Len(snap)
    /\ Strings(whitelist) = Strings(snap)
    /\ \A ip \in IPs : NetPermitted(whitelist, ip) = NetPermitted(snap, ip)

\* Two different networks went through the round trip.
C5_Witness ==
  /\ op = "UnmarshalJSON" /\ Len(snap) = 2 /\ snap[1] # snap[2]
  /\ Len(whitelist) = 2

----------------------------------------------------------------------------
(* SpecDual: one BasicDual; its mutators run between calls of Permitted, and a
   call of Permitted runs step by step, with its two goroutines under
   LaunchPolicyAsync *)

\* The capacity of the channel res: make(chan bool, 2).
ChanCap == 2

Tasks == {"addresses", "networks"}

DualIPs == {[len |-> 4, val |-> 0], [len |-> 4, val |-> 3], [len |-> 2, val |-> 0]}

\* What is decoded into wl.Networks: an empty token before a network, one
\* network, and an input of neither shape.
DualInputs ==
  { CompatInput(<<<<>>, String(IPNet(0, 1))>>), CompatInput(<<String(IPNet(2, 2))>>),
    String(IPNet(0, 1)) }

\* NewBasicDual(launchPolicy): a Basic and a BasicNet, both empty.
NewBasicDual(policy) ==
  /\ hostKind = "basic" /\ netKind = "basic" /\ launchPolicy = policy

\* NewStubDual(): a HostStub and a NetStub, sequenced.
NewStubDual ==
  /\ hostKind = "stub" /\ netKind = "stub" /\ launchPolicy = LaunchPolicySequenced

DualInit ==
  /\ NewStubDual \/ \E policy \in {LaunchPolicySequenced, LaunchPolicyAsync} : NewBasicDual(policy)
  /\ addresses = {} /\ whitelist = <<>>
  /\ dpc = "idle" /\ dip = [len |-> 0, val |-> 0] /\ asked = <<>>
  /\ tpc = [t \in Tasks |-> "none"]
  /\ chan = <<>> /\ recvd = <<>> /\ dres = FALSE /\ crashed = FALSE
  /\ jsonFormat = JsonFormatCompatibility
  /\ OpIdle /\ RtIdle /\ LockIdle

\* No call of Permitted is running in its caller.
Quiet == ~crashed /\ dpc \in {"idle", "returned"}

\* What a mutator leaves alone; the result of the last call is forgotten.
MutatorFrame ==
  /\ dpc' = "idle"
  /\ UNCHANGED <<hostKind, netKind, launchPolicy, dip, asked, tpc, chan, recvd, dres, crashed>>
  /\ UNCHANGED <<jsonFormat, op, arg, res, rtVars, lockVars>>

\* Basic.Add, Basic.Remove (whitelist.go): an invalid ip is ignored.
BasicAdd(addrs, ip) == IF validIP(ip) THEN addrs \cup {ip} ELSE addrs
BasicRemove(addrs, ip) == IF validIP(ip) THEN addrs \ {ip} ELSE addrs

\* BasicDual.AddAddress: wl.Addresses.Add(ip); HostStub.Add only logs.
AddAddress ==
  /\ Quiet
  /\ \E ip \in DualIPs :
       addresses' = IF hostKind = "stub" THEN addresses ELSE BasicAdd(addresses, ip)
  /\ UNCHANGED whitelist
  /\ MutatorFrame

\* BasicDual.RemoveAddress: wl.Addresses.Remove(ip)
RemoveAddress ==
  /\ Quiet
  /\ \E ip \in DualIPs :
       addresses' = IF hostKind = "stub" THEN addresses ELSE BasicRemove(addresses, ip)
  /\ UNCHANGED whitelist
  /\ MutatorFrame

\* AddNetwork that also whitelists the network's own address as a host.
AddNetworkAndItsAddress ==
  /\ Quiet
  /\ \E n \in ArgNets \cup {NIL} :
       /\ (n # NIL /\ netKind = "basic") => Len(whitelist) < MaxEntries
       /\ whitelist' = IF netKind = "stub" THEN whitelist ELSE NetAdd(whitelist, n)
       /\ addresses' = IF n = NIL \/ hostKind = "stub" THEN addresses
                       ELSE BasicAdd(addresses, [len |-> 4, val |-> n.IP])
  /\ MutatorFrame

\* BasicDual.AddNetwork: wl.Networks.Add(n); NetStub.Add only logs.
AddNetwork ==
  /\ Quiet
  /\ \E n \in ArgNets \cup {NIL} :
       /\ (n # NIL /\ netKind = "basic") => Len(whitelist) < MaxEntries
       /\ whitelist' = IF netKind = "stub" THEN whitelist ELSE NetAdd(whitelist, n)
  /\ UNCHANGED addresses
  /\ MutatorFrame

\* BasicDual.RemoveNetwork: wl.Networks.Remove(n); NetStub.Remove only logs.
RemoveNetwork ==
  /\ Quiet
  /\ \E n \in ArgNets \cup {NIL} :
       whitelist' = IF netKind = "stub" THEN whitelist ELSE NetRemove(whitelist, n)
  /\ UNCHANGED addresses
  /\ MutatorFrame

\* The exported field Networks (json:"networks") of a BasicDual holding a
\* *BasicNet is decoded into: BasicNet.UnmarshalJSON(in).
UnmarshalNetworks ==
  /\ Quiet /\ netKind = "basic"
  /\ \E in \in DualInputs :
       whitelist' = UnmarshalJSON(whitelist, in).whitelist
  /\ UNCHANGED addresses
  /\ MutatorFrame

\* What a step of a call leaves alone.
CallFrame ==
  /\ UNCHANGED <<hostKind, netKind, addresses, launchPolicy, whitelist>>
  /\ UNCHANGED <<jsonFormat, op, arg, res, rtVars, lockVars>>

\* BasicDual.Permitted(ip) is called; the goroutines of the call before it, if
\* any, have ended.  Under LaunchPolicyAsync the channel is made and the two
\* goroutines are started.
Call ==
  /\ Quiet /\ \A t \in Tasks : tpc[t] \in {"none", "done"}
  /\ \E ip \in DualIPs : dip' = ip
  /\ asked' = <<>> /\ chan' = <<>> /\ recvd' = <<>> /\ dres' = FALSE
  /\ IF launchPolicy = LaunchPolicySequenced
     THEN dpc' = "askAddresses" /\ tpc' = [t \in Tasks |-> "none"]
     ELSE dpc' = "recv1" /\ tpc' = [t \in Tasks |-> "run"]
  /\ UNCHANGED crashed
  /\ CallFrame

\* The left operand of an OR that evaluates both operands.
SeqAskAddressesThenNetworks ==
  /\ ~crashed /\ dpc = "askAddresses"
  /\ asked' = Append(asked, "addresses")
  /\ dres' = HostPermitted(hostKind, addresses, dip) /\ dpc' = "askNetworks"
  /\ UNCHANGED <<dip, tpc, chan, recvd, crashed>>
  /\ CallFrame

\* Sequenced, left operand of ||: wl.Addresses.Permitted(ip); true returns at once.
SeqAskAddresses ==
  /\ ~crashed /\ dpc = "askAddresses"
  /\ asked' = Append(asked, "addresses")
  /\ IF HostPermitted(hostKind, addresses, dip)
     THEN dres' = TRUE /\ dpc' = "returned"
     ELSE dres' = FALSE /\ dpc' = "askNetworks"
  /\ UNCHANGED <<dip, tpc, chan, recvd, crashed>>
  /\ CallFrame

\* Sequenced, right operand of ||: wl.Networks.Permitted(ip) is the result; a
\* panic in it unwinds the caller.
SeqAskNetworks ==
  /\ ~crashed /\ dpc = "askNetworks"
  /\ asked' = Append(asked, "networks")
  /\ IF NetACLPermitted(netKind, whitelist, dip).panic
     THEN dpc' = "panicked" /\ UNCHANGED dres
     ELSE dpc' = "returned" /\ dres' = NetACLPermitted(netKind, whitelist, dip).ret
  /\ UNCHANGED <<dip, tpc, chan, recvd, crashed>>
  /\ CallFrame

\* What the goroutine t computes: [panic, ret].
TaskResult(t) ==
  IF t = "addresses" THEN Returned(HostPermitted(hostKind, addresses, dip))
  ELSE NetACLPermitted(netKind, whitelist, dip)

\* A goroutine evaluates its collaborator's Permitted(ip); a panic in a
\* goroutine ends the process.
TaskEval ==
  /\ ~crashed
  /\ \E t \in Tasks :
       /\ tpc[t] = "run"
       /\ asked' = Append(asked, t)
       /\ IF TaskResult(t).panic
          THEN tpc' = [tpc EXCEPT ![t] = "panicked"] /\ crashed' = TRUE
          ELSE /\ tpc' = [tpc EXCEPT ![t] = IF TaskResult(t).ret THEN "sendTrue" ELSE "sendFalse"]
               /\ UNCHANGED crashed
  /\ UNCHANGED <<dpc, dip, chan, recvd, dres>>
  /\ CallFrame

\* A send on a channel without a buffer: it goes through when the caller is at
\* a receive.
TaskSendUnbuffered ==
  /\ ~crashed
  /\ \E t \in Tasks :
       /\ tpc[t] \in {"sendTrue", "sendFalse"}
       /\ chan = <<>> /\ dpc \in {"recv1", "recv2"}
       /\ chan' = Append(chan, tpc[t] = "sendTrue")
       /\ tpc' = [tpc EXCEPT ![t] = "done"]
  /\ UNCHANGED <<dpc, dip, asked, recvd, dres, crashed>>
  /\ CallFrame

\* res <- v: the send goes through when the buffer has room.
TaskSend ==
  /\ ~crashed
  /\ \E t \in Tasks :
       /\ tpc[t] \in {"sendTrue", "sendFalse"}
       /\ Len(chan) < ChanCap
       /\ chan' = Append(chan, tpc[t] = "sendTrue")
       /\ tpc' = [tpc EXCEPT ![t] = "done"]
  /\ UNCHANGED <<dpc, dip, asked, recvd, dres, crashed>>
  /\ CallFrame

\* A receive of the first value that goes on to the second whatever it is.
Recv1WaitsForBoth ==
  /\ ~crashed /\ dpc = "recv1" /\ chan # <<>>
  /\ recvd' = <<Head(chan)>> /\ chan' = Tail(chan)
  /\ dres' = Head(chan)
  /\ dpc' = "recv2"
  /\ UNCHANGED <<dip, asked, tpc, crashed>>
  /\ CallFrame

\* The left operand of <-res || <-res: a received true is the result, and the
\* right operand is not evaluated.
Recv1 ==
  /\ ~crashed /\ dpc = "recv1" /\ chan # <<>>
  /\ recvd' = <<Head(chan)>> /\ chan' = Tail(chan)
  /\ dres' = Head(chan)
  /\ dpc' = IF Head(chan) THEN "returned" ELSE "recv2"
  /\ UNCHANGED <<dip, asked, tpc, crashed>>
  /\ CallFrame

\* The right operand of <-res || <-res: the second value received is the result.
Recv2 ==
  /\ ~crashed /\ dpc = "recv2" /\ chan # <<>>
  /\ recvd' = Append(recvd, Head(chan)) /\ chan' = Tail(chan)
  /\ dres' = Head(chan)
  /\ dpc' = "returned"
  /\ UNCHANGED <<dip, asked, tpc, crashed>>
  /\ CallFrame

DualNext ==
  \/ AddAddress \/ RemoveAddress \/ AddNetwork \/ RemoveNetwork \/ UnmarshalNetworks
  \/ Call \/ SeqAskAddresses \/ SeqAskNetworks
  \/ TaskEval \/ TaskSend \/ Recv1 \/ Recv2

SpecDual == DualInit /\ [][DualNext]_vars

\* The same under the scheduler: a goroutine that can run does run, and so does
\* a caller whose receive has a value to take.
SpecDualFair ==
  /\ SpecDual
  /\ WF_vars(TaskEval) /\ WF_vars(TaskSend)
  /\ WF_vars(Recv1) /\ WF_vars(Recv2)

----------------------------------------------------------------------------
(* SpecLock: one BasicNet shared by goroutines, each running one method at a
   time, step by step: the steps are cut where wl.lock is taken and released
   and where wl.whitelist is read or written *)

Procs == {"g1", "g2"}

LockIPs == {[len |-> 4, val |-> 0], [len |-> 2, val |-> 0]}
LockNets == {IPNet(0, 1)}
\* An empty token before a network, an array of one network, a token that is no
\* network, and an input of neither shape.
LockInputs ==
  { CompatInput(<<<<>>, String(IPNet(0, 1))>>), NewInput(<<String(IPNet(2, 2))>>),
    CompatInput(<<<<"9", "/", "1">>>>), String(IPNet(0, 1)) }

\* Decode and the nets it reads, worked out once for each input.
LockDecoded == [in \in LockInputs |-> Decode(in)]
LockParsed == [in \in LockInputs |-> NetsOf(in).nets]

\* The first step of each method.
Entry(name) ==
  CASE name = "Permitted" -> "p_valid"
    [] name = "Add" -> "a_nil"
    [] name = "Remove" -> "r_nil"
    [] name = "MarshalJSON" -> "m_len"
    [] name = "UnmarshalJSON" -> "u_parse"

\* No ip, no network, no input: the arguments a method does not take.
NoIP == [len |-> 0, val |-> 0]
NoCall == [name |-> "none", ip |-> NoIP, n |-> NIL, in |-> <<>>]

LockInit ==
  /\ whitelist = <<>>
  /\ \E fmt \in Formats : jsonFormat = fmt
  /\ lpc = [p \in Procs |-> "idle"]
  /\ lop = [p \in Procs |-> NoCall]
  /\ readers = {} /\ writer = {} /\ waiting = {}
  /\ lcap = [p \in Procs |-> 0]
  /\ lss = [p \in Procs |-> <<>>]
  /\ lres = [p \in Procs |-> <<>>]
  /\ OpIdle /\ RtIdle /\ DualIdle

\* What no step of SpecLock changes.
LockFrame ==
  UNCHANGED <<jsonFormat, op, arg, res, rtVars, hostKind, netKind, addresses,
              launchPolicy, dpc, dip, asked, tpc, chan, recvd, dres>>

\* p goes to pc; p returns v to its caller.
Goto(p, pc) == lpc' = [lpc EXCEPT ![p] = pc]
Return(p, v) == lpc' = [lpc EXCEPT ![p] = "done"] /\ lres' = [lres EXCEPT ![p] = v]

\* A goroutine calls the method `name` with its argument: an ip, a network or
\* an input.
Start(p, name, ip, n, in) ==
  /\ lop' = [lop EXCEPT ![p] = [name |-> name, ip |-> ip, n |-> n, in |-> in]]
  /\ Goto(p, Entry(name))

\* A goroutine calls a method.
LCall(p) ==
  /\ ~crashed /\ lpc[p] = "idle"
  /\ \/ \E ip \in LockIPs : Start(p, "Permitted", ip, NIL, <<>>)
     \/ \E n \in LockNets \cup {NIL} :
          /\ n # NIL => Len(whitelist) < MaxEntries
          /\ Start(p, "Add", NoIP, n, <<>>)
     \/ \E n \in LockNets \cup {NIL} : Start(p, "Remove", NoIP, n, <<>>)
     \/ Start(p, "MarshalJSON", NoIP, NIL, <<>>)
     \/ \E in \in LockInputs : Start(p, "UnmarshalJSON", NoIP, NIL, in)
  /\ UNCHANGED <<whitelist, readers, writer, waiting, lcap, lss, lres, crashed>>
  /\ LockFrame

\* RLock that lets one reader in at a time.
RLockExclusive(p, from, to) ==
  /\ ~crashed /\ lpc[p] = from
  /\ writer = {} /\ waiting = {} /\ readers = {}
  /\ readers' = readers \cup {p}
  /\ Goto(p, to)
  /\ UNCHANGED <<whitelist, lop, writer, waiting, lcap, lss, lres, crashed>>
  /\ LockFrame

\* wl.lock.RLock(): granted when no writer holds the lock or waits for it.
RLock(p, from, to) ==
  /\ ~crashed /\ lpc[p] = from
  /\ writer = {} /\ waiting = {}
  /\ readers' = readers \cup {p}
  /\ Goto(p, to)
  /\ UNCHANGED <<whitelist, lop, writer, waiting, lcap, lss, lres, crashed>>
  /\ LockFrame

\* wl.lock.Lock(), first half: the writer announces itself, one writer at a time;
\* from then on no new reader is let in.
LockBegin(p, from, to) ==
  /\ ~crashed /\ lpc[p] = from
  /\ writer = {} /\ waiting = {}
  /\ waiting' = {p}
  /\ Goto(p, to)
  /\ UNCHANGED <<whitelist, lop, readers, writer, lcap, lss, lres, crashed>>
  /\ LockFrame

\* wl.lock.Lock(), second half: granted when the readers have left.
LockAcquire(p, from, to) ==
  /\ ~crashed /\ lpc[p] = from
  /\ p \in waiting /\ readers = {}
  /\ writer' = {p} /\ waiting' = {}
  /\ Goto(p, to)
  /\ UNCHANGED <<whitelist, lop, readers, lcap, lss, lres, crashed>>
  /\ LockFrame

\* Permitted: if !validIP(ip) { return false }
PValid(p) ==
  /\ ~crashed /\ lpc[p] = "p_valid"
  /\ IF validIP(lop[p].ip) THEN Goto(p, "p_rlock") /\ UNCHANGED lres
     ELSE Return(p, Returned(FALSE))
  /\ UNCHANGED <<whitelist, lop, readers, writer, waiting, lcap, lss, crashed>>
  /\ LockFrame

PRLock(p) == RLock(p, "p_rlock", "p_scan")

\* Permitted: the scan, then the deferred RUnlock and the return; a panic in
\* Contains unwinds through the deferred RUnlock and ends the process.
PScan(p) ==
  /\ ~crashed /\ lpc[p] = "p_scan"
  /\ readers' = readers \ {p}
  /\ IF Scan(whitelist, 1, lop[p].ip).panic
     THEN crashed' = TRUE /\ Goto(p, "panicked") /\ UNCHANGED lres
     ELSE Return(p, Scan(whitelist, 1, lop[p].ip)) /\ UNCHANGED crashed
  /\ UNCHANGED <<whitelist, lop, writer, waiting, lcap, lss>>
  /\ LockFrame

\* Add: if n == nil { return }
ANil(p) ==
  /\ ~crashed /\ lpc[p] = "a_nil"
  /\ IF lop[p].n = NIL THEN Return(p, Returned(FALSE))
     ELSE Goto(p, "a_lock") /\ UNCHANGED lres
  /\ UNCHANGED <<whitelist, lop, readers, writer, waiting, lcap, lss, crashed>>
  /\ LockFrame

ALockBegin(p) == LockBegin(p, "a_lock", "a_wait")
ALockAcquire(p) == LockAcquire(p, "a_wait", "a_append")

\* Add: the append, then the deferred Unlock and the return.
AAppend(p) ==
  /\ ~crashed /\ lpc[p] = "a_append"
  /\ whitelist' = NetAdd(whitelist, lop[p].n)
  /\ writer' = {}
  /\ Return(p, Returned(FALSE))
  /\ UNCHANGED <<lop, readers, waiting, lcap, lss, crashed>>
  /\ LockFrame

\* Remove: if n == nil { return }
RNil(p) ==
  /\ ~crashed /\ lpc[p] = "r_nil"
  /\ IF lop[p].n = NIL THEN Return(p, Returned(FALSE))
     ELSE Goto(p, "r_lock") /\ UNCHANGED lres
  /\ UNCHANGED <<whitelist, lop, readers, writer, waiting, lcap, lss, crashed>>
  /\ LockFrame

RLockBegin(p) == LockBegin(p, "r_lock", "r_wait")
RLockAcquire(p) == LockAcquire(p, "r_wait", "r_remove")

\* Remove: the search and the removal, then the deferred Unlock and the return.
RRemove(p) ==
  /\ ~crashed /\ lpc[p] = "r_remove"
  /\ whitelist' = NetRemove(whitelist, lop[p].n)
  /\ writer' = {}
  /\ Return(p, Returned(FALSE))
  /\ UNCHANGED <<lop, readers, waiting, lcap, lss, crashed>>
  /\ LockFrame

\* MarshalJSON: make([]string, 0, len(wl.whitelist)), before the lock is taken.
MLen(p) ==
  /\ ~crashed /\ lpc[p] = "m_len"
  /\ lcap' = [lcap EXCEPT ![p] = Len(whitelist)]
  /\ lss' = [lss EXCEPT ![p] = <<>>]
  /\ Goto(p, "m_rlock")
  /\ UNCHANGED <<whitelist, lop, readers, writer, waiting, lres, crashed>>
  /\ LockFrame

MRLock(p) == RLock(p, "m_rlock", "m_copy")

\* MarshalJSON: the loop that copies each entry's String() into ss, then RUnlock.
MCopy(p) ==
  /\ ~crashed /\ lpc[p] = "m_copy"
  /\ lss' = [lss EXCEPT ![p] = [i \in 1..Len(whitelist) |-> String(whitelist[i])]]
  /\ readers' = readers \ {p}
  /\ Goto(p, "m_format")
  /\ UNCHANGED <<whitelist, lop, writer, waiting, lcap, lres, crashed>>
  /\ LockFrame

\* MarshalJSON: the output is built from ss, outside the lock.
MFormat(p) ==
  /\ ~crashed /\ lpc[p] = "m_format"
  /\ Return(p, FormatBytes(lss[p], jsonFormat))
  /\ UNCHANGED <<whitelist, lop, readers, writer, waiting, lcap, lss, crashed>>
  /\ LockFrame

\* UnmarshalJSON: the shape test and the parse into nets, outside the lock; an
\* index out of range ends the process, an error returns.
UParse(p) ==
  /\ ~crashed /\ lpc[p] = "u_parse"
  /\ IF LockDecoded[lop[p].in].keep /\ LockDecoded[lop[p].in].panic
     THEN crashed' = TRUE /\ Goto(p, "panicked") /\ UNCHANGED lres
     ELSE IF LockDecoded[lop[p].in].keep
     THEN Return(p, [panic |-> FALSE, err |-> TRUE]) /\ UNCHANGED crashed
     ELSE Goto(p, "u_lock") /\ UNCHANGED <<lres, crashed>>
  /\ UNCHANGED <<whitelist, lop, readers, writer, waiting, lcap, lss>>
  /\ LockFrame

ULockBegin(p) == LockBegin(p, "u_lock", "u_wait")
ULockAcquire(p) == LockAcquire(p, "u_wait", "u_make")

\* UnmarshalJSON: wl.whitelist = make([]*net.IPNet, len(nets))
UMake(p) ==
  /\ ~crashed /\ lpc[p] = "u_make"
  /\ whitelist' = [k \in 1..Len(LockParsed[lop[p].in]) |-> NIL]
  /\ Goto(p, "u_fill")
  /\ UNCHANGED <<lop, readers, writer, waiting, lcap, lss, lres, crashed>>
  /\ LockFrame

\* UnmarshalJSON: the loop and the cut, or the reset to nil on a bad token; then
\* the deferred Unlock and the return.
UFill(p) ==
  /\ ~crashed /\ lpc[p] = "u_fill"
  /\ whitelist' = Fill(LockParsed[lop[p].in], 1, whitelist, 0).whitelist
  /\ writer' = {}
  /\ Return(p, [panic |-> FALSE, err |-> Fill(LockParsed[lop[p].in], 1, whitelist, 0).err])
  /\ UNCHANGED <<lop, readers, waiting, lcap, lss, crashed>>
  /\ LockFrame

\* The caller has the result; the goroutine is free for its next call.
LDone(p) ==
  /\ ~crashed /\ lpc[p] = "done"
  /\ Goto(p, "idle")
  /\ lop' = [lop EXCEPT ![p] = NoCall]
  /\ lres' = [lres EXCEPT ![p] = <<>>]
  /\ lss' = [lss EXCEPT ![p] = <<>>]
  /\ lcap' = [lcap EXCEPT ![p] = 0]
  /\ UNCHANGED <<whitelist, readers, writer, waiting, crashed>>
  /\ LockFrame

\* A step of p inside the method it is running.
LStep(p) ==
  \/ PValid(p) \/ PRLock(p) \/ PScan(p)
  \/ ANil(p) \/ ALockBegin(p) \/ ALockAcquire(p) \/ AAppend(p)
  \/ RNil(p) \/ RLockBegin(p) \/ RLockAcquire(p) \/ RRemove(p)
  \/ MLen(p) \/ MRLock(p) \/ MCopy(p) \/ MFormat(p)
  \/ UParse(p) \/ ULockBegin(p) \/ ULockAcquire(p) \/ UMake(p) \/ UFill(p)

LockNext == \E p \in Procs : LCall(p) \/ LDone(p) \/ LStep(p)

SpecLock == LockInit /\ [][LockNext]_vars

\* The same under the scheduler and the lock's queueing: a goroutine inside a
\* method that can take a step again and again does take it (a blocked RLock or
\* Lock is served once the lock is free: sync.RWMutex starves neither side).
SpecLockFair == SpecLock /\ \A p \in Procs : SF_vars(LStep(p))

----------------------------------------------------------------------------
(* SpecPermitted: the package's two ACLs side by side, a behaviour being one of
   a BasicNet shared by goroutines (SpecLock) or one of a BasicDual (SpecDual) *)

\* The state is that of the shared BasicNet: its goroutines exist.
Shared == DOMAIN lpc # {}

PermittedInit == LockInit \/ DualInit

PermittedNext == (Shared /\ LockNext) \/ (~Shared /\ DualNext)

SpecPermitted == PermittedInit /\ [][PermittedNext]_vars

----------------------------------------------------------------------------
(* Properties of BasicNet under Spec *)

\* Some entry of wl is a network that contains ip.
SomeEntryContains(wl, ip) == \E i \in 1..Len(wl) : wl[i] # NIL /\ Contains(wl[i], ip)

\* C1: after any sequence of Add, Remove and UnmarshalJSON, Permitted(ip) returns
\* true exactly when ip is valid and some network of the entry sequence contains
\* it, and false otherwise.
C1_PermittedIffContained ==
  op = "Permitted" => res = Returned(validIP(arg) /\ SomeEntryContains(whitelist, arg))

\* The input has the quoted shape, the array shape.
QuotedShape(in) == Len(in) >= 2 /\ in[1] = DQ /\ in[Len(in)] = DQ
ArrayShape(in) == Len(in) >= 2 /\ in[1] = "[" /\ in[Len(in)] = "]"

\* UnmarshalJSON ran last and returned an error.
UnmarshalFailed == op = "UnmarshalJSON" /\ ~res.panic /\ res.err

NonEmptyTokens(in) ==
  SelectSeq([i \in 1..Len(CompatNets(in)) |-> TrimSpace(CompatNets(in)[i])],
            LAMBDA t : t # <<>>)

\* C6: after a successful UnmarshalJSON of a quoted input, the entry sequence is
\* exactly the parsed non-empty tokens in input order, wherever the empty tokens
\* were.
C6_EntriesAreNonEmptyTokens ==
  (op = "UnmarshalJSON" /\ ~res.panic /\ ~res.err /\ QuotedShape(arg)) =>
     whitelist = [i \in 1..Len(NonEmptyTokens(arg)) |-> ParseCIDR(NonEmptyTokens(arg)[i])]

\* C7: Remove(n) removes exactly the first entry whose String() equals n's and
\* keeps the others in order; with no such entry, or n nil, the entry sequence
\* is unchanged; Remove never panics.
C7_RemoveFirstMatch ==
  [][op' = "Remove" =>
       /\ res' = Returned(FALSE)
       /\ \/ /\ arg' = NIL \/ \A i \in 1..Len(whitelist) : String(whitelist[i]) # String(arg')
             /\ whitelist' = whitelist
          \/ /\ arg' # NIL
             /\ \E i \in 1..Len(whitelist) :
                  /\ String(whitelist[i]) = String(arg')
                  /\ \A j \in 1..(i - 1) : String(whitelist[j]) # String(arg')
                  /\ Len(whitelist') = Len(whitelist) - 1
                  /\ \A k \in 1..(i - 1) : whitelist'[k] = whitelist[k]
                  /\ \A k \in i..(Len(whitelist) - 1) : whitelist'[k] = whitelist[k + 1]]_vars

\* Remove(n) has run on an ACL that held n twice: one copy is left, and an
\* address in it is still permitted.
C7_Witness ==
  /\ op = "Remove" /\ arg # NIL
  /\ whitelist = <<arg>>
  /\ \E ip \in IPs : NetPermitted(whitelist, ip) = Returned(TRUE)

\* C8: Add(n) appends n as the last entry, whether or not it is already there,
\* and leaves the entries before it as they were; Add(nil) changes nothing.
C8_AddAppends ==
  [][op' = "Add" =>
       /\ res' = Returned(FALSE)
       /\ IF arg' = NIL THEN whitelist' = whitelist
          ELSE /\ Len(whitelist') = Len(whitelist) + 1
               /\ whitelist'[Len(whitelist')] = arg'
               /\ \A k \in 1..Len(whitelist) : whitelist'[k] = whitelist[k]]_vars

\* A network was added to an ACL that already held it: it is there twice.
C8_Witness ==
  /\ op = "Add" /\ arg # NIL
  /\ Len(whitelist) = 2 /\ whitelist[1] = arg /\ whitelist[2] = arg

\* C9 as stated: Permitted returns false for an invalid ip, for BasicNet, for
\* NetStub and for the BasicDual of NewStubDual.
C9_InvalidNeverPermitted ==
  (op \in {"Permitted", "NetStub.Permitted", "StubDual.Permitted"} /\ ~validIP(arg)) =>
     res = Returned(FALSE)

\* C9 as amended: BasicNet.Permitted returns false for an invalid ip, without
\* panicking, whatever the entries; NetStub.Permitted and the Permitted of the
\* BasicDual of NewStubDual return true for every ip, the invalid ones included.
C9_InvalidDeniedStubsPermit ==
  /\ (op = "Permitted" /\ ~validIP(arg)) => res = Returned(FALSE)
  /\ op \in {"NetStub.Permitted", "StubDual.Permitted"} => res = Returned(TRUE)

\* BasicNet.Permitted has refused the 2-byte ip on an ACL holding a network that
\* contains the address the model gives it.
C9_Witness ==
  /\ op = "Permitted" /\ arg.len = 2 /\ res = Returned(FALSE)
  /\ SomeEntryContains(whitelist, arg)

----------------------------------------------------------------------------
(* Properties of BasicDual under SpecDual *)

\* How the running or last call ended: a value returned, or a panic.
CallEnded == dpc \in {"returned", "panicked"} \/ (crashed /\ dpc # "idle")
CallOutcome == IF dpc = "returned" /\ ~crashed THEN Returned(dres) ELSE Panicked

\* C2: for a fixed state of the two collaborators and any ip, a call under
\* LaunchPolicyAsync ends as a call under LaunchPolicySequenced does on that
\* state, which returns Addresses.Permitted(ip) OR Networks.Permitted(ip),
\* whatever the order in which the goroutines deliver.
C2_PolicyParity ==
  (launchPolicy = LaunchPolicyAsync /\ CallEnded) =>
     CallOutcome = SequencedPermitted(hostKind, netKind, addresses, whitelist, dip)

AsyncReturned == launchPolicy = LaunchPolicyAsync /\ dpc = "returned"

----------------------------------------------------------------------------
(* Properties of the locking under SpecLock *)

\* p is in MarshalJSON at a step that reads wl.whitelist: its length, its entries.
MarshalReads(p) == lop[p].name = "MarshalJSON" /\ lpc[p] \in {"m_len", "m_copy"}

\* q is at a step that writes wl.whitelist.
Writes(q) == lpc[q] \in {"a_append", "r_remove", "u_make", "u_fill"}

\* C10: every read MarshalJSON makes of the entry sequence, that of its length
\* included, is made under the read lock, so that no goroutine is at a write of
\* the sequence while MarshalJSON is at a read of it.
C10_NoWriteDuringMarshalRead ==
  \A p \in Procs : MarshalReads(p) => \A q \in Procs : ~Writes(q)

----------------------------------------------------------------------------
(* The shape test of UnmarshalJSON under Spec *)

\* Some token that is not empty once trimmed names no network.
BadToken(nets) ==
  \E i \in 1..Len(nets) : TrimSpace(nets[i]) # <<>> /\ ParseCIDR(TrimSpace(nets[i])) = NIL

\* UnmarshalJSON(in) returns an error for an input of the quoted shape, of the
\* array shape: when a token names no network; when the array is no JSON array
\* of strings.
QuotedFails(in) == BadToken(CompatNets(in))
ArrayFails(in) == ~JsonUnmarshal(in).ok \/ BadToken(JsonUnmarshal(in).nets)

----------------------------------------------------------------------------
(* Permitted under SpecPermitted *)

\* A step of a goroutine inside BasicNet.Permitted.
NetPermittedStep ==
  Shared /\ \E p \in Procs : lpc[p] \in {"p_valid", "p_rlock", "p_scan"} /\ lpc'[p] # lpc[p]

\* A step of BasicDual.Permitted or of one of its goroutines, the call included.
DualPermittedStep ==
  ~Shared /\ (tpc' # tpc \/ chan' # chan \/ (dpc' # dpc /\ dpc' # "idle"))

\* C12: no step of BasicNet.Permitted, and none of BasicDual.Permitted under
\* either policy, changes the entry sequence, the addresses, the serialization
\* mode or the launch policy, whatever the argument; and a goroutine about to
\* take the read lock in Permitted is let in whenever no writer holds the lock
\* or waits for it, however many readers hold it.
C12_PermittedReadOnly ==
  /\ [][(NetPermittedStep \/ DualPermittedStep) =>
          UNCHANGED <<whitelist, addresses, jsonFormat, launchPolicy>>]_vars
  /\ [](Shared =>
          \A p \in Procs :
            (~crashed /\ lpc[p] = "p_rlock" /\ writer = {} /\ waiting = {}) => ENABLED PRLock(p))

\* Two goroutines hold the read lock together, both inside Permitted, on an ACL
\* that is not empty.
C12_Witness ==
  /\ readers = Procs /\ whitelist # <<>>
  /\ \A p \in Procs : lop[p].name = "Permitted" /\ lpc[p] = "p_scan"

----------------------------------------------------------------------------
(* The sequenced policy under SpecDual *)

\* A call under LaunchPolicySequenced is over: it returned, or the network ACL
\* panicked under it.
SequencedEnded == launchPolicy = LaunchPolicySequenced /\ dpc \in {"returned", "panicked"}

\* C13: under LaunchPolicySequenced the address ACL is consulted first; when it
\* permits the ip the call returns true and the network ACL's Permitted is never
\* invoked; the network ACL is consulted exactly when the address ACL said no,
\* and what it returns is then what the call returns.
C13_AddressesFirstShortCircuit ==
  /\ (launchPolicy = LaunchPolicySequenced /\ dpc = "askNetworks") =>
        asked = <<"addresses">> /\ ~HostPermitted(hostKind, addresses, dip)
  /\ SequencedEnded =>
        IF HostPermitted(hostKind, addresses, dip)
        THEN asked = <<"addresses">> /\ dpc = "returned" /\ dres
        ELSE /\ asked = <<"addresses", "networks">>
             /\ dpc = "returned" => dres = NetACLPermitted(netKind, whitelist, dip).ret

\* A sequenced call has returned true on the address ACL's word alone, the
\* network ACL holding entries and never asked.
C13_Witness ==
  /\ SequencedEnded /\ dpc = "returned" /\ dres /\ asked = <<"addresses">>
  /\ hostKind = "basic" /\ netKind = "basic" /\ whitelist # <<>>

----------------------------------------------------------------------------
(* The replacement of the entry sequence under SpecLock *)

\* p is inside UnmarshalJSON between its first write of wl.whitelist (the make)
\* and its last (the cut, or the reset to nil): the sequence is partly filled.
Replacing(p) == lpc[p] = "u_fill"

\* q is at a step that reads wl.whitelist: the scan of Permitted, the len and
\* the loop of MarshalJSON, the append of Add, the search of Remove.
Observes(q) == lpc[q] \in {"p_scan", "m_len", "m_copy", "a_append", "r_remove"}

\* C14: while an UnmarshalJSON is between its first and its last write of the
\* entry sequence, no Permitted, MarshalJSON, Add or Remove of another goroutine
\* is at a read of the sequence: each observes the sequence from before the
\* replacement or the final one.
C14_NoObserverDuringReplacement ==
  \A p \in Procs : Replacing(p) => \A q \in Procs \ {p} : ~Observes(q)

----------------------------------------------------------------------------
(* The serialization mode under Spec *)

\* C15: the mode is fixed at construction: no Add, Remove, Permitted,
\* MarshalJSON or UnmarshalJSON changes jsonFormat; the shape MarshalJSON writes
\* depends on jsonFormat alone (a JSON string, "" when empty, in compatibility
\* mode; a JSON array, [] when empty, in the new mode); and what UnmarshalJSON
\* does with an input is what the input decodes to, whatever the mode of the
\* instance.
C15_ModeFixedDecodeByShape ==
  /\ [][op' # "NewBasicNet2" => jsonFormat' = jsonFormat]_vars
  /\ [](op = "MarshalJSON" =>
          /\ ~res.err
          /\ QuotedShape(res.bytes) <=> jsonFormat = JsonFormatCompatibility
          /\ ArrayShape(res.bytes) <=> jsonFormat = JsonFormatNew
          /\ whitelist = <<>> =>
                res.bytes = IF jsonFormat = JsonFormatNew THEN <<"[", "]">> ELSE <<DQ, DQ>>)
  /\ [](\A fmt \in Formats :
          (op = "UnmarshalJSON" /\ jsonFormat = fmt /\ ~res.panic) =>
             /\ res.err = Decoded[arg].err
             /\ ~res.err => whitelist = Decoded[arg].whitelist)

\* An instance in compatibility mode has decoded an array of two networks and
\* holds them.
C15_Witness ==
  /\ jsonFormat = JsonFormatCompatibility /\ op = "UnmarshalJSON" /\ ArrayShape(arg)
  /\ res = [panic |-> FALSE, err |-> FALSE]
  /\ Len(whitelist) = 2 /\ \A i \in 1..2 : whitelist[i] # NIL

----------------------------------------------------------------------------
(* The mutators of BasicDual under SpecDual *)

\* C16: AddAddress and RemoveAddress act on the address ACL alone and leave the
\* network ACL's entry sequence as it is; AddNetwork and RemoveNetwork act on
\* the network ACL alone and leave the address ACL as it is; none of the four
\* changes the launch policy, and no step changes both ACLs.
C16_MutationsRouted ==
  [][/\ (AddAddress \/ RemoveAddress) => UNCHANGED <<whitelist, launchPolicy>>
     /\ (AddNetwork \/ RemoveNetwork) => UNCHANGED <<addresses, launchPolicy>>
     /\ launchPolicy' = launchPolicy
     /\ addresses' = addresses \/ whitelist' = whitelist]_vars

\* Both kinds of mutator have acted on a BasicDual: the address ACL holds an
\* address and the network ACL the network Add was given, as given.
C16_Witness ==
  /\ hostKind = "basic" /\ netKind = "basic"
  /\ addresses = {[len |-> 4, val |-> 3]} /\ whitelist = <<IPNet(3, 1)>>

----------------------------------------------------------------------------
(* Nil entries and faults of UnmarshalJSON under Spec *)

\* C17: in every state reached through Add, Remove and UnmarshalJSON, failed or
\* not, on either encoding, every element of the entry sequence is a network,
\* none is nil.
C17_NoNilEntry == \A i \in 1..Len(whitelist) : whitelist[i] # NIL

\* C18: UnmarshalJSON ends in success or in an error for every input and never
\* faults on an index or a slice bound out of range; the zero-length input and
\* the input of one double quote return an error.
C18_UnmarshalNeverFaults ==
  op = "UnmarshalJSON" =>
     /\ ~res.panic
     /\ arg \in {<<>>, <<DQ>>} => res.err

----------------------------------------------------------------------------
(* The goroutines of the asynchronous policy under SpecDualFair *)

\* The goroutine t has been started and has not yet ended.
TaskLive(t) == tpc[t] \in {"run", "sendTrue", "sendFalse"}

\* C19: under LaunchPolicyAsync each goroutine sends exactly one value and its
\* send never blocks: the channel never holds more than its 2 places, a
\* goroutine at its send always finds room, the values sent are one for each
\* goroutine that has ended, and every goroutine started ends, whether or not
\* the caller has returned or ever takes its value, so long as the
\* collaborator's Permitted returns (it does not when it panics).
C19_TasksSendOnceAndEnd ==
  /\ [](Len(chan) <= ChanCap)
  /\ [](\A t \in Tasks : tpc[t] \in {"sendTrue", "sendFalse"} => Len(chan) < ChanCap)
  /\ [](launchPolicy = LaunchPolicyAsync =>
          Len(chan) + Len(recvd) = Cardinality({t \in Tasks : tpc[t] = "done"}))
  /\ \A t \in Tasks : TaskLive(t) ~> (tpc[t] = "done" \/ crashed)

\* The caller has returned true on the first value; the other goroutine has
\* ended all the same, its value left in the channel.
C19_Witness ==
  /\ AsyncReturned /\ recvd = <<TRUE>> /\ Len(chan) = 1
  /\ \A t \in Tasks : tpc[t] = "done"

----------------------------------------------------------------------------
(* Release of the lock and termination under SpecLockFair *)

\* p is inside a method: called and not yet returned.
InCall(p) == lpc[p] \notin {"idle", "done"}

\* C20: every method releases the lock it took on every exit path, so that a
\* goroutine outside a method holds nothing, some step is possible whenever a
\* goroutine is inside a method, and under fair scheduling every call started
\* returns.
C20_LocksReleasedCallsReturn ==
  /\ [](\A p \in Procs : lpc[p] \in {"idle", "done", "panicked"} =>
                              p \notin readers \cup writer \cup waiting)
  /\ []((~crashed /\ \E p \in Procs : InCall(p)) => \E q \in Procs : ENABLED LStep(q))
  /\ \A p \in Procs : InCall(p) ~> (lpc[p] = "done")

====
